---- MODULE Spec2Model ----
(***************************************************************************)
(* A model of class huffman_tree (huffman_tree.h / huffman_tree.cpp).      *)
(*                                                                         *)
(* Strings are sequences of character codes (signed char values).  A file  *)
(* is a record [open, content]: content is the byte sequence, '\n'         *)
(* included; open = FALSE is a file std::ifstream cannot open.  The heap   *)
(* of Node objects is the function nodes from addresses 1, 2, ... to       *)
(* records; address 0 is nullptr.  std::priority_queue is modelled by the  *)
(* set of addresses it holds: top() is an element of least frequency, and  *)
(* which one among equal frequencies is left to the library.              *)
(***************************************************************************)
EXTENDS Integers, Sequences, FiniteSets

VARIABLES
    pc,             \* position in the object's life: start, push, merge, built, destroyed
    frequencies,    \* std::map<char,int> frequencies
    nodes,          \* the Node objects on the heap, by address
    node_queue,     \* std::priority_queue<Node*, ..., Compare> node_queue
    encoded_chars,  \* std::map<char,std::string> encoded_chars
    merges,         \* iterations the merge loop of the constructor has run
    observed,       \* the characters of the construction source
    call,           \* the public call the caller made last and what it returned, if any
    plain           \* the text whose encoding the last decode call was given

vars == <<pc, frequencies, nodes, node_queue, encoded_chars, merges, observed, call, plain>>

---------------------------------------------------------------------------
(* Characters *)

NL == 10            \* '\n'
Zero == 48          \* '0'
One == 49           \* '1'
NotAChar == -64     \* Node's default character: marks a node that is not a leaf
nullptr == 0

\* the characters a construction source or a text to encode is made of: 'a' 'b' 'c' and '\n'
Alphabet == {97, 98, 99, NL}
\* the characters a string to decode is made of: '0', '1' and 'x'
DecodeAlphabet == {Zero, One, 120}

(* Bounds *)
MaxFileLen == 6     \* longest construction source
MaxTextLen == 3     \* longest text given to encode
MaxBitsLen == 4     \* longest string given to decode

SeqsUpTo(S, n) == UNION {[1..k -> S] : k \in 0..n}

Unreadable == [open |-> FALSE, content |-> <<>>]
Files(n) == {[open |-> TRUE, content |-> s] : s \in SeqsUpTo(Alphabet, n)} \cup {Unreadable}

SourceFiles == Files(MaxFileLen)    \* the files a tree is constructed from
TextFiles == Files(MaxTextLen)      \* the files given to encode
BitStrings == SeqsUpTo(DecodeAlphabet, MaxBitsLen)  \* the strings given to decode

---------------------------------------------------------------------------
(* std::map *)

EmptyMap == <<>>

\* std::map::emplace: inserts unless the key is present
Emplace(m, k, v) ==
    IF k \in DOMAIN m THEN m
    ELSE [x \in DOMAIN m \cup {k} |-> IF x = k THEN v ELSE m[x]]

MinOf(S) == CHOOSE x \in S : \A y \in S : x <= y

---------------------------------------------------------------------------
(* std::getline, called until it fails: the lines of a stream, each with   *)
(* the value file.good() has after the call that read it (TRUE when the    *)
(* line ended at a '\n', FALSE when it ended at the end of the file).      *)

RECURSIVE IndexOfNL(_, _)
IndexOfNL(s, i) ==
    IF i > Len(s) THEN 0
    ELSE IF s[i] = NL THEN i
    ELSE IndexOfNL(s, i + 1)

RECURSIVE GetLines(_)
GetLines(s) ==
    IF s = <<>> THEN <<>>
    ELSE LET p == IndexOfNL(s, 1) IN
         IF p = 0 THEN <<[line |-> s, good |-> FALSE]>>
         ELSE <<[line |-> SubSeq(s, 1, p - 1), good |-> TRUE]>>
              \o GetLines(SubSeq(s, p + 1, Len(s)))

---------------------------------------------------------------------------
(* huffman_tree::read_file *)

\* the for loop over one line
RECURSIVE CountLine(_, _, _)
CountLine(line, i, freq) ==
    IF i > Len(line) THEN freq
    ELSE LET character == line[i] IN
         CountLine(line, i + 1,
                   IF character \notin DOMAIN freq
                   THEN Emplace(freq, character, 1)
                   ELSE [freq EXCEPT ![character] = @ + 1])

\* the while loop over the lines; returns the map and numLines
RECURSIVE CountLines(_, _, _, _)
CountLines(lines, k, freq, numLines) ==
    IF k > Len(lines) THEN [freq |-> freq, numLines |-> numLines]
    ELSE CountLines(lines, k + 1, CountLine(lines[k].line, 1, freq),
                    IF lines[k].good THEN numLines + 1 ELSE numLines)

read_file(file) ==
    IF file.open
    THEN LET r == CountLines(GetLines(file.content), 1, EmptyMap, 0) IN
         IF r.numLines > 0 THEN Emplace(r.freq, NL, r.numLines) ELSE r.freq
    ELSE EmptyMap

---------------------------------------------------------------------------
(* Node and Compare *)

Node(character_, frequency_) ==
    [character |-> character_, frequency |-> frequency_, right |-> nullptr, left |-> nullptr]

\* Compare: left is below right in the queue when left->frequency > right->frequency
Compare(mem, l, r) == mem[l].frequency > mem[r].frequency

\* a queue whose top() is any node it holds
MinNodes_Any(mem, queue) == queue

\* the nodes top() may return: those no other node of the queue is above
MinNodes(mem, queue) == {n \in queue : \A m \in queue : ~Compare(mem, n, m)}

\* new Node(...): the next free address
NewAddr(mem) == Cardinality(DOMAIN mem) + 1

Alloc(mem, node) == [a \in DOMAIN mem \cup {NewAddr(mem)} |-> IF a \in DOMAIN mem THEN mem[a] ELSE node]

---------------------------------------------------------------------------
(* The constructor *)

Init ==
    /\ pc = "start"
    /\ frequencies = EmptyMap
    /\ nodes = EmptyMap
    /\ node_queue = {}
    /\ encoded_chars = EmptyMap
    /\ merges = 0
    /\ observed = {}
    /\ call = [op |-> "none", open |-> TRUE, arg |-> <<>>, result |-> <<>>]
    /\ plain = [valid |-> FALSE, text |-> <<>>]

\* line 10: read_file(file_name)
ReadFile ==
    /\ pc = "start"
    /\ \E file \in SourceFiles :
        /\ frequencies' = read_file(file)
        /\ observed' = {file.content[i] : i \in 1..Len(file.content)}
    /\ pc' = "push"
    /\ UNCHANGED <<nodes, node_queue, encoded_chars, merges, call, plain>>

\* lines 11-16: one leaf per entry of frequencies, in key order
RECURSIVE LeavesFrom(_, _, _)
LeavesFrom(keys, mem, queue) ==
    IF keys = {} THEN [mem |-> mem, queue |-> queue]
    ELSE LET k == MinOf(keys) IN
         IF frequencies[k] > 0
         THEN LeavesFrom(keys \ {k}, Alloc(mem, Node(k, frequencies[k])), queue \cup {NewAddr(mem)})
         ELSE LeavesFrom(keys \ {k}, mem, queue)

PushLeaves ==
    /\ pc = "push"
    /\ LET r == LeavesFrom(DOMAIN frequencies, nodes, node_queue) IN
        /\ nodes' = r.mem
        /\ node_queue' = r.queue
    /\ pc' = "merge"
    /\ UNCHANGED <<frequencies, encoded_chars, merges, observed, call, plain>>

\* a merge that makes the first node popped the right child
MergeNode_Swapped(mem, left, right) ==
    [character |-> NotAChar, frequency |-> mem[left].frequency + mem[right].frequency,
     right |-> left, left |-> right]

\* lines 17-27: one iteration of the merge loop
MergeNode(mem, left, right) ==
    [character |-> NotAChar, frequency |-> mem[left].frequency + mem[right].frequency,
     right |-> right, left |-> left]

Merge ==
    /\ pc = "merge"
    /\ Cardinality(node_queue) > 1
    /\ \E left \in MinNodes(nodes, node_queue) :
       \E right \in MinNodes(nodes, node_queue \ {left}) :
        /\ nodes' = Alloc(nodes, MergeNode(nodes, left, right))
        /\ node_queue' = (node_queue \ {left, right}) \cup {NewAddr(nodes)}
    /\ merges' = merges + 1
    /\ UNCHANGED <<pc, frequencies, encoded_chars, observed, call, plain>>

\* node_queue.top() when the queue holds one node or several of distinct least frequency
top(mem, queue) == CHOOSE n \in MinNodes(mem, queue) : TRUE

\* a traversal that adds '0' on the way to the right child too
RECURSIVE encode_characters_SameBit(_, _, _)
encode_characters_SameBit(code, node, table) ==
    IF nodes[node].character >= 0 THEN Emplace(table, nodes[node].character, code)
    ELSE LET afterLeft ==
                 IF nodes[node].left # nullptr
                 THEN encode_characters_SameBit(Append(code, Zero), nodes[node].left, table)
                 ELSE table
         IN  IF nodes[node].right # nullptr
             THEN encode_characters_SameBit(Append(code, Zero), nodes[node].right, afterLeft)
             ELSE afterLeft

\* a traversal that goes to the right child only where there is no left child
RECURSIVE encode_characters_LeftOnly(_, _, _)
encode_characters_LeftOnly(code, node, table) ==
    IF nodes[node].character >= 0 THEN Emplace(table, nodes[node].character, code)
    ELSE IF nodes[node].left # nullptr
         THEN encode_characters_LeftOnly(Append(code, Zero), nodes[node].left, table)
         ELSE IF nodes[node].right # nullptr
              THEN encode_characters_LeftOnly(Append(code, One), nodes[node].right, table)
              ELSE table

\* huffman_tree::encode_characters, returning the map it fills
RECURSIVE encode_characters(_, _, _)
encode_characters(code, node, table) ==
    IF nodes[node].character >= 0 THEN Emplace(table, nodes[node].character, code)
    ELSE LET afterLeft ==
                 IF nodes[node].left # nullptr
                 THEN encode_characters(Append(code, Zero), nodes[node].left, table)
                 ELSE table
         IN  IF nodes[node].right # nullptr
             THEN encode_characters(Append(code, One), nodes[node].right, afterLeft)
             ELSE afterLeft

\* lines 28-33
Finish ==
    /\ pc = "merge"
    /\ ~(Cardinality(node_queue) > 1)
    /\ LET traversed ==
               IF node_queue # {} /\ Cardinality(DOMAIN frequencies) # 1
               THEN encode_characters(<<>>, top(nodes, node_queue), EmptyMap)
               ELSE EmptyMap
       IN  encoded_chars' =
               IF Cardinality(DOMAIN frequencies) = 1
               THEN Emplace(traversed, MinOf(DOMAIN frequencies), <<Zero>>)
               ELSE traversed
    /\ pc' = "built"
    /\ UNCHANGED <<frequencies, nodes, node_queue, merges, observed, call, plain>>

---------------------------------------------------------------------------
(* huffman_tree::get_character_code *)

get_character_code(character) ==
    IF character \notin DOMAIN encoded_chars THEN <<>> ELSE encoded_chars[character]

---------------------------------------------------------------------------
(* huffman_tree::encode *)

\* an encode that passes over a character without a code
RECURSIVE EncodeLine_SkipUnknown(_, _, _)
EncodeLine_SkipUnknown(line, i, encoded) ==
    IF i > Len(line) THEN [returned |-> FALSE, encoded |-> encoded]
    ELSE LET character == line[i] IN
         IF character \notin DOMAIN encoded_chars
         THEN EncodeLine_SkipUnknown(line, i + 1, encoded)
         ELSE EncodeLine_SkipUnknown(line, i + 1, encoded \o encoded_chars[character])

\* the for loop over one line; returned = TRUE is the return "" of line 76
RECURSIVE EncodeLine(_, _, _)
EncodeLine(line, i, encoded) ==
    IF i > Len(line) THEN [returned |-> FALSE, encoded |-> encoded]
    ELSE LET character == line[i] IN
         IF character \notin DOMAIN encoded_chars
         THEN [returned |-> TRUE, encoded |-> <<>>]
         ELSE EncodeLine(line, i + 1, encoded \o encoded_chars[character])

\* the while loop over the lines, and the return that follows it
RECURSIVE EncodeLines(_, _, _)
EncodeLines(lines, k, encoded) ==
    IF k > Len(lines) THEN encoded
    ELSE LET r == EncodeLine(lines[k].line, 1, encoded) IN
         IF r.returned THEN <<>>
         ELSE IF lines[k].good
              THEN IF NL \in DOMAIN encoded_chars
                   THEN EncodeLines(lines, k + 1, r.encoded \o encoded_chars[NL])
                   ELSE <<>>
              ELSE EncodeLines(lines, k + 1, r.encoded)

encode(file) ==
    IF file.open THEN EncodeLines(GetLines(file.content), 1, <<>>) ELSE <<>>

---------------------------------------------------------------------------
(* huffman_tree::decode *)

\* a walk that goes right on '0' and left on '1'
RECURSIVE DecodeWalk_Swapped(_, _, _)
DecodeWalk_Swapped(str, i, node) ==
    IF node # nullptr /\ nodes[node].character < 0 /\ i <= Len(str)
    THEN LET bit == str[i] IN
         IF bit = Zero THEN DecodeWalk_Swapped(str, i + 1, nodes[node].right)
         ELSE IF bit = One THEN DecodeWalk_Swapped(str, i + 1, nodes[node].left)
         ELSE [invalid |-> TRUE, node |-> node, i |-> i]
    ELSE [invalid |-> FALSE, node |-> node, i |-> i]

\* a walk that goes right on every character that is not '0'
RECURSIVE DecodeWalk_AnyAsOne(_, _, _)
DecodeWalk_AnyAsOne(str, i, node) ==
    IF node # nullptr /\ nodes[node].character < 0 /\ i <= Len(str)
    THEN LET bit == str[i] IN
         IF bit = Zero THEN DecodeWalk_AnyAsOne(str, i + 1, nodes[node].left)
         ELSE DecodeWalk_AnyAsOne(str, i + 1, nodes[node].right)
    ELSE [invalid |-> FALSE, node |-> node, i |-> i]

\* lines 108-120, the walk from a node down the tree; invalid = TRUE is the return "" of line 119
RECURSIVE DecodeWalk(_, _, _)
DecodeWalk(str, i, node) ==
    IF node # nullptr /\ nodes[node].character < 0 /\ i <= Len(str)
    THEN LET bit == str[i] IN
         IF bit = Zero THEN DecodeWalk(str, i + 1, nodes[node].left)
         ELSE IF bit = One THEN DecodeWalk(str, i + 1, nodes[node].right)
         ELSE [invalid |-> TRUE, node |-> node, i |-> i]
    ELSE [invalid |-> FALSE, node |-> node, i |-> i]

\* lines 104-125, the loop over the string
RECURSIVE DecodeTree(_, _, _)
DecodeTree(str, i, decoded) ==
    IF i <= Len(str)
    THEN LET w == DecodeWalk(str, i, top(nodes, node_queue)) IN
         IF w.invalid THEN <<>>
         ELSE IF w.node # nullptr
              THEN DecodeTree(str, w.i, Append(decoded, nodes[w.node].character))
              ELSE <<>>
    ELSE decoded

\* a decode of the one-character tree that takes '1' for '0'
RECURSIVE DecodeSingle_BothBits(_, _, _, _)
DecodeSingle_BothBits(str, i, only_char, decoded) ==
    IF i <= Len(str)
    THEN IF str[i] = Zero \/ str[i] = One
         THEN DecodeSingle_BothBits(str, i + 1, only_char, Append(decoded, only_char))
         ELSE <<>>
    ELSE decoded

\* lines 127-137, the tree of one character
RECURSIVE DecodeSingle(_, _, _, _)
DecodeSingle(str, i, only_char, decoded) ==
    IF i <= Len(str)
    THEN IF str[i] = Zero THEN DecodeSingle(str, i + 1, only_char, Append(decoded, only_char))
         ELSE <<>>
    ELSE decoded

decode(string_to_decode) ==
    IF Cardinality(DOMAIN frequencies) > 1 THEN DecodeTree(string_to_decode, 1, <<>>)
    ELSE IF Cardinality(DOMAIN frequencies) = 1
         THEN DecodeSingle(string_to_decode, 1, MinOf(DOMAIN frequencies), <<>>)
         ELSE <<>>

---------------------------------------------------------------------------
(* The public calls on a constructed object *)

NoCall == [op |-> "none", open |-> TRUE, arg |-> <<>>, result |-> <<>>]
NoPlain == [valid |-> FALSE, text |-> <<>>]

\* a decode that takes the root off the queue
Decode_Pop ==
    /\ pc = "built"
    /\ call.op = "none"
    /\ \E str \in BitStrings :
        call' = [op |-> "decode", open |-> TRUE, arg |-> str, result |-> decode(str)]
    /\ plain' = NoPlain
    /\ node_queue' = IF node_queue = {} THEN {} ELSE node_queue \ {top(nodes, node_queue)}
    /\ UNCHANGED <<pc, frequencies, nodes, encoded_chars, merges, observed>>

GetCharacterCode ==
    /\ pc = "built"
    /\ call.op = "none"
    /\ \E character \in Alphabet :
        call' = [op |-> "get_character_code", open |-> TRUE, arg |-> <<character>>,
                 result |-> get_character_code(character)]
    /\ plain' = NoPlain
    /\ UNCHANGED <<pc, frequencies, nodes, node_queue, encoded_chars, merges, observed>>

Encode ==
    /\ pc = "built"
    /\ call.op = "none"
    /\ \E file \in TextFiles :
        call' = [op |-> "encode", open |-> file.open, arg |-> file.content, result |-> encode(file)]
    /\ plain' = NoPlain
    /\ UNCHANGED <<pc, frequencies, nodes, node_queue, encoded_chars, merges, observed>>

Decode ==
    /\ pc = "built"
    /\ call.op = "none"
    /\ \E str \in BitStrings :
        call' = [op |-> "decode", open |-> TRUE, arg |-> str, result |-> decode(str)]
    /\ plain' = NoPlain
    /\ UNCHANGED <<pc, frequencies, nodes, node_queue, encoded_chars, merges, observed>>

\* decode given what the encode call before it returned
DecodeEncoded ==
    /\ pc = "built"
    /\ call.op = "encode"
    /\ call.open
    /\ call' = [op |-> "decode", open |-> TRUE, arg |-> call.result, result |-> decode(call.result)]
    /\ plain' = [valid |-> TRUE, text |-> call.arg]
    /\ UNCHANGED <<pc, frequencies, nodes, node_queue, encoded_chars, merges, observed>>

\* the caller makes the call it made last once more
Repeat ==
    /\ pc = "built"
    /\ call.op # "none"
    /\ call' = [call EXCEPT !.result =
                    IF call.op = "get_character_code" THEN get_character_code(call.arg[1])
                    ELSE IF call.op = "encode" THEN encode([open |-> call.open, content |-> call.arg])
                    ELSE decode(call.arg)]
    /\ UNCHANGED <<pc, frequencies, nodes, node_queue, encoded_chars, merges, observed, plain>>

\* the caller is done with what the last call returned
Return ==
    /\ pc = "built"
    /\ call.op # "none"
    /\ call' = NoCall
    /\ plain' = NoPlain
    /\ UNCHANGED <<pc, frequencies, nodes, node_queue, encoded_chars, merges, observed>>

---------------------------------------------------------------------------
(* The destructor *)

\* the nodes huffman_tree::delete_tree deletes
RECURSIVE delete_tree(_)
delete_tree(node) ==
    (IF nodes[node].left # nullptr THEN delete_tree(nodes[node].left) ELSE {})
    \cup (IF nodes[node].right # nullptr THEN delete_tree(nodes[node].right) ELSE {})
    \cup (IF node # nullptr THEN {node} ELSE {})

Destroy ==
    /\ pc = "built"
    /\ IF node_queue # {}
       THEN LET node == top(nodes, node_queue)
                deleted == delete_tree(node)
            IN  /\ node_queue' = node_queue \ {node}
                /\ nodes' = [a \in DOMAIN nodes \ deleted |-> nodes[a]]
       ELSE UNCHANGED <<nodes, node_queue>>
    /\ pc' = "destroyed"
    /\ UNCHANGED <<frequencies, encoded_chars, merges, observed, call, plain>>

Next ==
    \/ ReadFile \/ PushLeaves \/ Merge \/ Finish
    \/ GetCharacterCode \/ Encode \/ Decode \/ DecodeEncoded \/ Repeat \/ Return
    \/ Destroy

Spec == Init /\ [][Next]_vars
---------------------------------------------------------------------------
(* Vocabulary of the properties *)

Built == pc = "built"
N == Cardinality(DOMAIN frequencies)
IsBit(ch) == ch = Zero \/ ch = One
IsPrefix(p, s) == Len(p) <= Len(s) /\ SubSeq(s, 1, Len(p)) = p
Coded(text) == \A i \in 1..Len(text) : text[i] \in DOMAIN encoded_chars

RECURSIVE SumOver(_, _)
SumOver(f, S) ==
    IF S = {} THEN 0
    ELSE LET x == CHOOSE y \in S : TRUE IN f[x] + SumOver(f, S \ {x})

\* the codes of the characters of a text, one after the other
RECURSIVE CodesOf(_)
CodesOf(text) ==
    IF text = <<>> THEN <<>>
    ELSE encoded_chars[Head(text)] \o CodesOf(Tail(text))

---------------------------------------------------------------------------
\* C1: decode(encode(text)) = text for every text whose characters, line
\* terminators included, all have a code, on a tree of one or more symbols.
RoundTrip ==
    (Built /\ call.op = "decode" /\ plain.valid /\ N >= 1 /\ Coded(plain.text))
        => call.result = plain.text

RoundTripWitness ==
    /\ Built /\ call.op = "decode" /\ plain.valid /\ N >= 2
    /\ Len(plain.text) = 2 /\ plain.text[1] = NL /\ plain.text[2] # NL
    /\ Coded(plain.text)
    /\ call.result = plain.text

\* C2: every code of the table is a non-empty string of '0' and '1', and no
\* code is a prefix of the code of another symbol.
PrefixFree ==
    Built =>
        /\ \A c \in DOMAIN encoded_chars :
            /\ Len(encoded_chars[c]) >= 1
            /\ \A i \in 1..Len(encoded_chars[c]) : IsBit(encoded_chars[c][i])
        /\ \A c, d \in DOMAIN encoded_chars :
            c # d => ~IsPrefix(encoded_chars[c], encoded_chars[d])

PrefixFreeWitness ==
    /\ Built /\ Cardinality(DOMAIN encoded_chars) = 4
    /\ \E c, d \in DOMAIN encoded_chars : Len(encoded_chars[c]) = 1 /\ Len(encoded_chars[d]) = 3

\* what is left of a string of bits once the codes it starts with are taken off
RECURSIVE Residue(_)
Residue(str) ==
    IF \E c \in DOMAIN encoded_chars : IsPrefix(encoded_chars[c], str)
    THEN LET c == CHOOSE x \in DOMAIN encoded_chars : IsPrefix(encoded_chars[x], str)
         IN  Residue(SubSeq(str, Len(encoded_chars[c]) + 1, Len(str)))
    ELSE str

\* the string ends inside a code: after whole codes, a proper non-empty start of a code
EndsMidTraversal(str) ==
    /\ \A i \in 1..Len(str) : IsBit(str[i])
    /\ Residue(str) # <<>>
    /\ \E c \in DOMAIN encoded_chars :
        IsPrefix(Residue(str), encoded_chars[c]) /\ Residue(str) # encoded_chars[c]

\* C3: on a tree of two or more symbols, decode of a string of bits that ends
\* mid-traversal returns the empty string.
TruncatedDecodeIsEmpty ==
    (Built /\ call.op = "decode" /\ N >= 2 /\ EndsMidTraversal(call.arg))
        => call.result = <<>>

\* C4: on a tree of one or more symbols, decode of a string with a character
\* other than '0' and '1' anywhere in it returns the empty string.
InvalidCharIsEmpty ==
    (Built /\ call.op = "decode" /\ N >= 1 /\ \E i \in 1..Len(call.arg) : ~IsBit(call.arg[i]))
        => call.result = <<>>

InvalidCharWitness ==
    /\ Built /\ call.op = "decode" /\ N >= 2
    /\ Len(call.arg) = 3 /\ IsBit(call.arg[1]) /\ IsBit(call.arg[2]) /\ ~IsBit(call.arg[3])
    /\ \E c \in DOMAIN encoded_chars : encoded_chars[c] = <<call.arg[1]>>
    /\ call.result = <<>>

\* C5: encode returns the empty string when a character of the text, a line
\* terminator included, has no code, and the codes of all its characters in
\* order otherwise.
EncodeAllOrNothing ==
    (Built /\ call.op = "encode" /\ call.open)
        => call.result = IF Coded(call.arg) THEN CodesOf(call.arg) ELSE <<>>

EncodeAllOrNothingWitness ==
    /\ Built /\ call.op = "encode" /\ call.open
    /\ Len(call.arg) = 2
    /\ call.arg[1] \in DOMAIN encoded_chars
    /\ call.arg[2] \notin DOMAIN encoded_chars
    /\ call.result = <<>>

\* C6: with one distinct symbol s, the code of s is "0", decode of k '0's is
\* s k times, and decode of a string with any other character is empty.
SingleSymbol ==
    (Built /\ N = 1) =>
        LET s == CHOOSE c \in DOMAIN frequencies : TRUE IN
        /\ encoded_chars = [c \in {s} |-> <<Zero>>]
        /\ (call.op = "get_character_code" /\ call.arg = <<s>>) => call.result = <<Zero>>
        /\ call.op = "decode" =>
            call.result = IF \A i \in 1..Len(call.arg) : call.arg[i] = Zero
                          THEN [i \in 1..Len(call.arg) |-> s]
                          ELSE <<>>

SingleSymbolWitness ==
    /\ Built /\ N = 1 /\ call.op = "decode"
    /\ call.arg = <<Zero, Zero, Zero>>
    /\ Len(call.result) = 3

\* C7: the code table has an entry for exactly the symbols of the construction
\* source, and get_character_code(c) is non-empty exactly for those.
TableMatchesSource ==
    Built =>
        /\ DOMAIN encoded_chars = DOMAIN frequencies
        /\ DOMAIN encoded_chars = observed
        /\ call.op = "get_character_code" => (call.result # <<>> <=> call.arg[1] \in observed)

TableMatchesSourceWitness ==
    /\ Built /\ call.op = "get_character_code"
    /\ Cardinality(observed) = 3
    /\ call.arg[1] \notin observed
    /\ call.result = <<>>

\* the words a code of n symbols is made of: the strings of 1 to n - 1 bits
Words(n) == SeqsUpTo({Zero, One}, n - 1) \ {<<>>}

\* the weighted lengths of the prefix-free codes that give the symbols of S
\* words no word of used is a prefix of, nor the other way round
RECURSIVE CodeCosts(_, _, _)
CodeCosts(S, used, words) ==
    IF S = {} THEN {0}
    ELSE LET s == CHOOSE x \in S : TRUE
             free == {w \in words : \A u \in used : ~IsPrefix(u, w) /\ ~IsPrefix(w, u)}
         IN  UNION {{frequencies[s] * Len(w) + c : c \in CodeCosts(S \ {s}, used \cup {w}, words)}
                    : w \in free}

WeightedLength == SumOver([c \in DOMAIN frequencies |-> frequencies[c] * Len(get_character_code(c))],
                          DOMAIN frequencies)

\* C8: with two or more symbols, the weighted length of the code equals the
\* least weighted length of a prefix-free binary code for the same symbols.
Optimal ==
    (Built /\ call.op = "none" /\ N >= 2) =>
        LET costs == CodeCosts(DOMAIN frequencies, {}, Words(N)) IN
        /\ WeightedLength \in costs
        /\ \A c \in costs : WeightedLength <= c

OptimalWitness ==
    /\ Built /\ call.op = "none" /\ N = 4
    /\ \E c, d \in DOMAIN frequencies : frequencies[c] = 1 /\ frequencies[d] = 3

\* C9: get_character_code, encode and decode leave the frequency table, the
\* tree and the code table as they are, and a call repeated with the same
\* argument returns the same result.
ReadOnly ==
    [][(Built /\ Built') =>
        /\ UNCHANGED <<frequencies, nodes, node_queue, encoded_chars>>
        /\ (call'.op = call.op /\ call'.open = call.open /\ call'.arg = call.arg)
            => call'.result = call.result]_vars

ReadOnlyWitness ==
    /\ Built /\ call.op = "decode" /\ ~plain.valid
    /\ N >= 2 /\ Cardinality(node_queue) = 1
    /\ call.arg # <<>> /\ call.result = <<>>

IsLeaf(a) == nodes[a].character >= 0

\* C10: the merge loop runs N - 1 times and leaves one node; an internal node
\* has both children, their frequencies add up to its own and the left one is
\* not above the right one; a leaf has no children; the root's frequency is
\* the sum of the counts.
TreeShape ==
    /\ pc = "merge" => Cardinality(node_queue) + merges = N
    /\ (Built /\ N >= 1) =>
        /\ merges = N - 1
        /\ Cardinality(node_queue) = 1
        /\ Cardinality(DOMAIN nodes) = 2 * N - 1
        /\ \A a \in DOMAIN nodes :
            IF IsLeaf(a)
            THEN nodes[a].left = nullptr /\ nodes[a].right = nullptr
            ELSE /\ nodes[a].left \in DOMAIN nodes
                 /\ nodes[a].right \in DOMAIN nodes
                 /\ nodes[a].frequency = nodes[nodes[a].left].frequency + nodes[nodes[a].right].frequency
                 /\ nodes[nodes[a].left].frequency <= nodes[nodes[a].right].frequency
        /\ \A r \in node_queue : nodes[r].frequency = SumOver(frequencies, DOMAIN frequencies)

TreeShapeWitness ==
    /\ Built /\ N = 3 /\ merges = 2
    /\ \E r \in node_queue : nodes[nodes[r].left].frequency < nodes[nodes[r].right].frequency
====
